---- MODULE Spec2Model ----
(***************************************************************************)
(* Model of the identification engine of tlsprint (src/tlsprint/identify.py *)
(* and the benchmark driver of src/tlsprint/benchmark.py).                 *)
(*                                                                         *)
(* The model tree class itself (prune_models, condense, subtree, leaves,   *)
(* models) is not part of the sources at hand; it is modelled from the     *)
(* specification's description of the Model Tree, in the form the code of  *)
(* identify.py relies on: nodes are addressed by their path, the children  *)
(* of a node are the paths one token longer, and descent() looks a         *)
(* response up under the key send_node + (response,).                      *)
(***************************************************************************)
EXTENDS Integers, Sequences, FiniteSets

\* ------------------------------------------------------------- bounds
\* The number of models the tree is learned from.
NumModels == 3
\* The number of behaviours a model is drawn from.
NumBehaviours == 8
\* The number of inputs on the longest path of the learned tree.
MaxDepth == 2
\* The cap on the resets of one run (no run reaches it).
MaxResets == 3
\* The largest number of implementations one model maps to when the
\* selectors are applied on their own.
MaxImplementations == 3
\* The largest total weight of a node the selectors are applied to on their
\* own.
MaxTotalWeight == 9
\* The number of identification runs benchmark() makes for one model.
Iterations == 2

\* ------------------------------------------------------------- tokens
\* Input tokens and response tokens, in the tree's stable (insertion) order.
Inputs == <<"A", "B">>
Responses == <<"0", "1">>
\* The response tokens of the trees the selectors are applied to on their
\* own: those of the learned trees and one more.
SelResponses == <<"0", "1", "2">>
\* A reply of the live peer that was never seen during learning.
UnknownResponse == "?"
\* What BenchmarkConnector.send returns when no neighbour holds the target
\* (the Python function falls off its end).
NoneToken == "None"

Models == 1..NumModels
\* A model identifier that is in no tree.
AbsentModel == NumModels + 1
Behaviours == 0..(NumBehaviours - 1)

\* ------------------------------------------------------- learned tree
\* The tree handed to identify() is built outside the engine from a set of
\* deterministic models.  A model's behaviour b answers the input word w
\* (the inputs sent since the last reset) by the bit WordIndex(w) of b.
\* The tree holds the words of at most MaxDepth inputs, so two models that
\* differ only on longer words share all their paths in the tree.
RECURSIVE WordIndex(_)
WordIndex(w) ==
    IF w = <<>> THEN 0
    ELSE LET i == CHOOSE k \in 1..Len(Inputs) : Inputs[k] = w[Len(w)]
         IN WordIndex(SubSeq(w, 1, Len(w) - 1)) * Len(Inputs) + i

RECURSIVE Pow2(_)
Pow2(n) == IF n = 0 THEN 1 ELSE 2 * Pow2(n - 1)

Answer(b, w) == Responses[((b \div Pow2(WordIndex(w) - 1)) % 2) + 1]

\* The path of tokens (input, response, input, response, ...) behaviour b
\* takes on the input word w.
RECURSIVE Trace(_, _)
Trace(b, w) ==
    IF w = <<>> THEN <<>>
    ELSE Trace(b, SubSeq(w, 1, Len(w) - 1)) \o <<w[Len(w)], Answer(b, w)>>

RECURSIVE Words(_)
Words(d) ==
    IF d = 0 THEN {<<>>}
    ELSE LET shorter == Words(d - 1)
         IN shorter \cup {w \o <<Inputs[k]>> : w \in shorter, k \in 1..Len(Inputs)}

InputWords == Words(MaxDepth) \ {<<>>}

\* Every node behaviour b passes: the root, and for each input word the
\* node of the input sent and the node of the response received.
NodesOf(b) ==
    {<<>>}
    \cup {Trace(b, w) : w \in InputWords}
    \cup {SubSeq(Trace(b, w), 1, 2 * Len(w) - 1) : w \in InputWords}

\* The nodes of every behaviour, computed once.
NodeTable == [b \in Behaviours |-> NodesOf(b)]

\* A node's models are the models whose behaviour passes the node.
LearnTree(beh) ==
    LET N == UNION {NodeTable[beh[m]] : m \in Models}
    IN [nodes  |-> N,
        models |-> [n \in N |-> {m \in Models : n \in NodeTable[beh[m]]}]]

\* ---------------------------------------------------------- model tree
IsPrefix(p, n) == Len(p) <= Len(n) /\ SubSeq(n, 1, Len(p)) = p

\* tree[node]: the children of a node.
Children(tree, node) ==
    {c \in tree.nodes : Len(c) = Len(node) + 1 /\ IsPrefix(node, c)}

\* tree.subtree(node): the node and its descendants.
Subtree(tree, node) ==
    LET N == {d \in tree.nodes : IsPrefix(node, d)}
    IN [nodes |-> N, models |-> [n \in N |-> tree.models[n]]]

\* tree.models: the models of the tree (those of its topmost node).
TreeModels(tree) == UNION {tree.models[n] : n \in tree.nodes}

\* The parent of a node: its path with the last token removed.
Parent(node) == SubSeq(node, 1, Len(node) - 1)

\* tree.leaves: the nodes that are no node's parent.
Leaves(tree) ==
    tree.nodes \ {Parent(c) : c \in {n \in tree.nodes : n # <<>>}}

\* The node and its ancestors.
Prefixes(node) == {SubSeq(node, 1, k) : k \in 0..Len(node)}

\* len(tree): the number of nodes.
TreeLen(tree) == Cardinality(tree.nodes)

EmptyTree == [nodes |-> {}, models |-> [n \in {} |-> {}]]

\* Mutant of prune_models: the test for an emptied node is inverted.
prune_models_inverted(tree, removed) ==
    LET gone == {n \in tree.nodes : tree.models[n] \cap removed = {}}
        N == {n \in tree.nodes : Prefixes(n) \cap gone = {}}
    IN [nodes |-> N, models |-> [n \in N |-> tree.models[n] \ removed]]

\* Mutant of prune_models: the models are subtracted at the leaves only.
prune_models_leaves_only(tree, removed) ==
    LET gone == {n \in tree.nodes : tree.models[n] \ removed = {}}
        N == {n \in tree.nodes : Prefixes(n) \cap gone = {}}
    IN [nodes |-> N,
        models |-> [n \in N |->
                      IF \E c \in N : c # n /\ IsPrefix(n, c)
                      THEN tree.models[n] ELSE tree.models[n] \ removed]]

\* tree.prune_models(removed): subtract removed from every node's models;
\* a node left without models is deleted together with its subtree.
prune_models(tree, removed) ==
    LET gone == {n \in tree.nodes : tree.models[n] \ removed = {}}
        N == {n \in tree.nodes : Prefixes(n) \cap gone = {}}
    IN [nodes |-> N, models |-> [n \in N |-> tree.models[n] \ removed]]

\* The inputs with two or more response branches: those whose answer
\* separates models.
IsInputNode(n) == Len(n) % 2 = 1

Branching(tree) ==
    LET parents == {Parent(c) : c \in {n \in tree.nodes : n # <<>>}}
    IN {d \in parents :
          IsInputNode(d) /\ Cardinality(Children(tree, d)) >= 2}

\* A node contributes a decision when an input at or below it branches.
Decides(branching, node) == \E d \in branching : IsPrefix(node, d)

\* tree.condense().  The tree class is not part of the sources at hand, so
\* this follows the specification of the tree (sections 3 and 4.1) as far
\* as the callers of condense allow:
\*  - "any node that is not a leaf but has exactly one child is merged away
\*    if and only if it no longer contributes a meaningful decision": an
\*    input none of whose answers, here or below, separates models any more
\*    is removed with all below it, and the response node above it becomes
\*    a leaf when no input is left under it;
\*  - "the tree has exactly one leaf remaining (...) represented as an empty
\*    tree": when nothing but the root would remain the result is the empty
\*    tree, which identify() tests with len(tree) == 0;
\*  - a surviving node keeps its path.  descent() looks the response up
\*    under send_node + (response,) and sends send_node[-1];
\*    BenchmarkConnector.send looks its neighbours up under the messages and
\*    outputs since the last reset.  A node moved to another parent, or one
\*    whose ancestors were taken out, would not be found by either.
\* The same sentence of the specification goes on to ask that "every
\* surviving non-leaf node has at least two children".  That cannot be had
\* together with the above for a node whose only child still leads to a
\* decision (a root with one input that separates the models left, an input
\* with one answer above such an input): such a node is kept here.  Which of
\* the two the tree class does is not decided by the sources at hand.
condense(tree) ==
    LET branching == Branching(tree)
        dead == {n \in tree.nodes : IsInputNode(n) /\ ~Decides(branching, n)}
        N == {n \in tree.nodes : Prefixes(n) \cap dead = {}}
    IN IF Cardinality(N) <= 1 THEN EmptyTree
       ELSE [nodes |-> N, models |-> [n \in N |-> tree.models[n]]]

\* ----------------------------------------------------------- selectors
InputIndex(node) == CHOOSE k \in 1..Len(Inputs) : Inputs[k] = node[Len(node)]
ResponseIndex(node) ==
    CHOOSE k \in 1..Len(SelResponses) : SelResponses[k] = node[Len(node)]

\* list(tree[input_node]): the response children of an input node, in the
\* tree's stable order.
RECURSIVE InOrder(_)
InOrder(S) ==
    IF S = {} THEN <<>>
    ELSE LET first == CHOOSE c \in S :
                          \A o \in S : ResponseIndex(c) <= ResponseIndex(o)
         IN <<first>> \o InOrder(S \ {first})

\* random_selector: any child of the current node.
random_selector(tree, current_node) == Children(tree, current_node)

\* always_first_selector: the first child in the tree's stable order.
always_first_selector(tree, current_node) ==
    {c \in Children(tree, current_node) :
        \A o \in Children(tree, current_node) : InputIndex(c) <= InputIndex(o)}

\* ------------------------------------------------------------- weights
\* An implementation is a name and a version; LooseVersion compares the
\* versions component by component, major first.
Implementation(name, major, minor) ==
    [name |-> name, version |-> <<major, minor>>]

VersionAtLeast(version, major, minor) ==
    version[1] > major \/ (version[1] = major /\ version[2] >= minor)

\* The implementations the model mappings are built from; a name need only
\* hold "openssl" or "mbedtls" to be weighted as such.
ImplementationList ==
    <<Implementation("openssl", 1, 1), Implementation("mbedtls", 2, 7),
      Implementation("libopenssl", 1, 0), Implementation("mbedtls-apache", 2, 0),
      Implementation("mbedtls-openssl", 0, 9), Implementation("mbedtls", 1, 3)>>

FirstImplementations(k) == {ImplementationList[i] : i \in 1..k}

\* The sum of f over the set S.
RECURSIVE SetSum(_, _)
SetSum(f, S) ==
    IF S = {} THEN 0
    ELSE LET x == CHOOSE y \in S : TRUE
         IN f[x] + SetSum(f, S \ {x})

\* sub in name: the string sub is a part of the string name.
Contains(sub, name) ==
    \E i \in 1..(Len(name) - Len(sub) + 1) :
        SubSeq(name, i, i + Len(sub) - 1) = sub

implementation_weight_recent(implementation) ==
    LET name == implementation.name
        version == implementation.version
    IN IF Contains("openssl", name)
       THEN 5 * (IF VersionAtLeast(version, 1, 1) THEN 5
                 ELSE IF VersionAtLeast(version, 1, 0) THEN 2 ELSE 1)
       ELSE IF Contains("mbedtls", name)
       THEN (IF VersionAtLeast(version, 2, 7) THEN 5
             ELSE IF VersionAtLeast(version, 2, 0) THEN 2 ELSE 1)
       ELSE 1

model_weight_equal(implementations) == 1

model_weight_count(implementations) == Cardinality(implementations)

model_weight_recent(implementations) ==
    SetSum([i \in implementations |-> implementation_weight_recent(i)],
           implementations)

MODEL_WEIGHTS == {"equal", "count", "recent"}

\* weight_function(implementations), for the weight function of that name.
ModelWeight(weight_fn, implementations) ==
    IF weight_fn = "equal" THEN model_weight_equal(implementations)
    ELSE IF weight_fn = "count" THEN model_weight_count(implementations)
    ELSE model_weight_recent(implementations)

\* _tree_weight(tree, model_mapping, weight_function)
tree_weight(tree, mapping, weight_fn) ==
    LET ms == TreeModels(tree)
    IN SetSum([m \in ms |-> ModelWeight(weight_fn, mapping[m])], ms)

\* ------------------------------------------------------ float arithmetic
\* Python's float is the IEEE 754 binary64 number; the selectors compare
\* sums of such numbers, so their roundings are part of what they return.
\* A significand has 53 bits, more than an integer of the model checker
\* holds: a natural number is kept as its digits in base LimbBase, least
\* significant first and without leading zeros (zero is <<>>).
LimbBits == 15
LimbBase == 32768
SignificandBits == 53

RECURSIVE Natural(_)
Natural(n) == IF n = 0 THEN <<>> ELSE <<n % LimbBase>> \o Natural(n \div LimbBase)

Limb(a, i) == IF i <= Len(a) THEN a[i] ELSE 0

RECURSIVE Trim(_)
Trim(a) ==
    IF a # <<>> /\ a[Len(a)] = 0 THEN Trim(SubSeq(a, 1, Len(a) - 1)) ELSE a

RECURSIVE AddFrom(_, _, _, _)
AddFrom(a, b, i, carry) ==
    IF i > Len(a) /\ i > Len(b)
    THEN (IF carry = 0 THEN <<>> ELSE <<carry>>)
    ELSE LET s == Limb(a, i) + Limb(b, i) + carry
         IN <<s % LimbBase>> \o AddFrom(a, b, i + 1, s \div LimbBase)

NaturalAdd(a, b) == AddFrom(a, b, 1, 0)

\* a - b for a >= b
RECURSIVE SubFrom(_, _, _, _)
SubFrom(a, b, i, borrow) ==
    IF i > Len(a) THEN <<>>
    ELSE LET s == a[i] - Limb(b, i) - borrow
         IN IF s < 0 THEN <<s + LimbBase>> \o SubFrom(a, b, i + 1, 1)
            ELSE <<s>> \o SubFrom(a, b, i + 1, 0)

NaturalSub(a, b) == Trim(SubFrom(a, b, 1, 0))

\* a * d + carry for a digit d
RECURSIVE TimesDigit(_, _, _, _)
TimesDigit(a, d, i, carry) ==
    IF i > Len(a) THEN (IF carry = 0 THEN <<>> ELSE <<carry>>)
    ELSE LET p == a[i] * d + carry
         IN <<p % LimbBase>> \o TimesDigit(a, d, i + 1, p \div LimbBase)

RECURSIVE NaturalMul(_, _)
NaturalMul(a, b) ==
    IF a = <<>> \/ b = <<>> THEN <<>>
    ELSE NaturalAdd(Trim(TimesDigit(a, b[1], 1, 0)),
                    IF Len(b) = 1 THEN <<>> ELSE <<0>> \o NaturalMul(a, Tail(b)))

\* a < b
RECURSIVE LessFrom(_, _, _)
LessFrom(a, b, i) ==
    IF i = 0 THEN FALSE
    ELSE IF a[i] # b[i] THEN a[i] < b[i]
    ELSE LessFrom(a, b, i - 1)

NaturalLess(a, b) ==
    IF Len(a) # Len(b) THEN Len(a) < Len(b) ELSE LessFrom(a, b, Len(a))

RECURSIVE TwoTo(_)
TwoTo(n) == IF n = 0 THEN 1 ELSE 2 * TwoTo(n - 1)

RECURSIVE DigitBits(_)
DigitBits(d) == IF d = 0 THEN 0 ELSE 1 + DigitBits(d \div 2)

\* The number of bits of a.
BitLength(a) ==
    IF a = <<>> THEN 0 ELSE LimbBits * (Len(a) - 1) + DigitBits(a[Len(a)])

\* a * 2 ** k
ShiftLeft(a, k) ==
    IF a = <<>> THEN <<>>
    ELSE [i \in 1..(k \div LimbBits) |-> 0]
         \o TimesDigit(a, TwoTo(k % LimbBits), 1, 0)

\* a // 2 ** k
ShiftRight(a, k) ==
    LET whole == k \div LimbBits
        p == TwoTo(k % LimbBits)
        rest == IF whole >= Len(a) THEN <<>> ELSE SubSeq(a, whole + 1, Len(a))
    IN Trim([i \in 1..Len(rest) |->
               (rest[i] \div p) + (Limb(rest, i + 1) % p) * (LimbBase \div p)])

\* Bit k of a, bit 0 the least significant.
BitOf(a, k) == (Limb(a, (k \div LimbBits) + 1) \div TwoTo(k % LimbBits)) % 2

\* A float: (-1) ** neg * m * 2 ** e with a significand m of 53 bits, or
\* zero.  (Neither a subnormal number nor an infinity arises from weights.)
Float(neg, m, e) == [neg |-> neg, m |-> m, e |-> e]
FloatZero == Float(FALSE, <<>>, 0)

\* The float nearest to m * 2 ** e, of the two nearest the one with the
\* even significand.
Round(neg, m, e) ==
    LET n == BitLength(m)
    IN IF n = 0 THEN FloatZero
       ELSE IF n <= SignificandBits
       THEN Float(neg, ShiftLeft(m, SignificandBits - n), e - (SignificandBits - n))
       ELSE LET d == n - SignificandBits
                half == ShiftLeft(<<1>>, d - 1)
                bias == IF BitOf(m, d) = 1 THEN half ELSE NaturalSub(half, <<1>>)
                q == ShiftRight(NaturalAdd(m, bias), d)
            IN IF BitLength(q) > SignificandBits
               THEN Float(neg, ShiftRight(q, 1), e + d + 1)
               ELSE Float(neg, q, e + d)

\* float(n) for an integer n
IntFloat(n) == IF n < 0 THEN Round(TRUE, Natural(0 - n), 0) ELSE Round(FALSE, Natural(n), 0)

\* The digits of r / t after the point, and what is left of r after them.
FractionLimbs == 5
RECURSIVE FractionDigits(_, _, _)
FractionDigits(r, t, k) ==
    IF k = 0 THEN <<>>
    ELSE FractionDigits((r * LimbBase) % t, t, k - 1) \o <<(r * LimbBase) \div t>>

RECURSIVE FractionRest(_, _, _)
FractionRest(r, t, k) ==
    IF k = 0 THEN r ELSE FractionRest((r * LimbBase) % t, t, k - 1)

\* x / t for integers x >= 0 and t > 0: the float nearest to the quotient.
\* The quotient is cut after FractionLimbs digits, with one more bit that
\* tells whether anything was cut off.
TrueDivide(x, t) ==
    LET q == Trim(FractionDigits(x % t, t, FractionLimbs) \o Natural(x \div t))
        sticky == IF FractionRest(x % t, t, FractionLimbs) = 0 THEN <<>> ELSE <<1>>
    IN Round(FALSE, NaturalAdd(ShiftLeft(q, 1), sticky),
             0 - (LimbBits * FractionLimbs + 1))

\* The float next to a: farther from zero, and nearer to it.
FloatAbove(a) == Round(a.neg, NaturalAdd(a.m, <<1>>), a.e)

FloatBelow(a) ==
    LET twice == NaturalSub(ShiftLeft(a.m, 1), <<1>>)
    IN IF BitLength(twice) = SignificandBits THEN Float(a.neg, twice, a.e - 1)
       ELSE Float(a.neg, NaturalSub(a.m, <<1>>), a.e)

\* a * b
FloatMultiply(a, b) == Round(a.neg # b.neg, NaturalMul(a.m, b.m), a.e + b.e)

\* a + b
FloatAdd(a, b) ==
    IF a.m = <<>> THEN b
    ELSE IF b.m = <<>> THEN a
    ELSE LET e == IF a.e <= b.e THEN a.e ELSE b.e
             am == ShiftLeft(a.m, a.e - e)
             bm == ShiftLeft(b.m, b.e - e)
         IN IF a.neg = b.neg THEN Round(a.neg, NaturalAdd(am, bm), e)
            ELSE IF NaturalLess(am, bm) THEN Round(b.neg, NaturalSub(bm, am), e)
            ELSE Round(a.neg, NaturalSub(am, bm), e)

FloatNegate(a) == IF a.m = <<>> THEN a ELSE Float(~a.neg, a.m, a.e)

FloatSubtract(a, b) == FloatAdd(a, FloatNegate(b))

\* a < b
FloatLess(a, b) ==
    LET below(x, y) == \* x < y for positive x and y
            x.e < y.e \/ (x.e = y.e /\ NaturalLess(x.m, y.m))
    IN IF a.m = <<>> THEN b.m # <<>> /\ ~b.neg
       ELSE IF b.m = <<>> THEN a.neg
       ELSE IF a.neg # b.neg THEN a.neg
       ELSE IF a.neg THEN below(b, a) ELSE below(a, b)

\* sum(terms), which adds the terms to 0 from left to right
RECURSIVE FloatSum(_)
FloatSum(terms) ==
    IF terms = <<>> THEN FloatZero
    ELSE FloatAdd(FloatSum(SubSeq(terms, 1, Len(terms) - 1)), terms[Len(terms)])

\* ------------------------------------------------- weighted selectors
\* What a selector call ends in: the node it returns, or the exception it
\* raises.
Returns(node) == [kind |-> "node", node |-> node]
Raises(exception) == [kind |-> exception, node |-> <<>>]

\* The first node of a set of input nodes, in the tree's stable order.
FirstInput(S) == CHOOSE c \in S : \A o \in S : InputIndex(c) <= InputIndex(o)

\* weights: the weights of the response branches of an input node, in the
\* order of the responses.
RECURSIVE WeightsOf(_, _, _, _)
WeightsOf(tree, output_nodes, mapping, weight_fn) ==
    IF output_nodes = <<>> THEN <<>>
    ELSE <<tree_weight(Subtree(tree, Head(output_nodes)), mapping, weight_fn)>>
         \o WeightsOf(tree, Tail(output_nodes), mapping, weight_fn)

BranchWeights(tree, input_node, mapping, weight_fn) ==
    WeightsOf(tree, InOrder(Children(tree, input_node)), mapping, weight_fn)

RECURSIVE GCD(_, _)
GCD(a, b) == IF b = 0 THEN a ELSE GCD(b, a % b)

\* (x / total_weight) ** 2.  The power is computed by the C library's pow,
\* which returns the float nearest to the square but for few arguments,
\* where it returns the float next to it: of the quotients with a
\* denominator up to 300, in lowest terms, those of PowAbove and PowBelow.
PowAbove ==
    {<<33, 41>>, <<33, 82>>, <<25, 157>>, <<50, 157>>, <<100, 157>>,
     <<33, 164>>, <<145, 226>>, <<215, 238>>, <<161, 240>>, <<189, 292>>}
PowBelow ==
    {<<11, 157>>, <<159, 193>>, <<3, 217>>, <<6, 217>>, <<12, 217>>,
     <<24, 217>>, <<48, 217>>, <<96, 217>>, <<192, 217>>, <<85, 223>>,
     <<170, 223>>, <<191, 233>>, <<147, 247>>, <<169, 274>>, <<269, 280>>}

Square(x, total_weight) ==
    LET q == TrueDivide(x, total_weight)
        nearest == FloatMultiply(q, q)
        g == GCD(x, total_weight)
        lowest == <<x \div g, total_weight \div g>>
    IN IF lowest \in PowAbove THEN FloatAbove(nearest)
       ELSE IF lowest \in PowBelow THEN FloatBelow(nearest)
       ELSE nearest

\* [(x / total_weight) ** 2 for x in weights]
RECURSIVE Squares(_, _)
Squares(weights, total_weight) ==
    IF weights = <<>> THEN <<>>
    ELSE <<Square(Head(weights), total_weight)>>
         \o Squares(Tail(weights), total_weight)

\* sum([(x / total_weight) ** 2 for x in weights])
SumSquares(tree, input_node, total_weight, mapping, weight_fn) ==
    FloatSum(Squares(BranchWeights(tree, input_node, mapping, weight_fn),
                     total_weight))

\* impurities[input_node] = 1 - sum([(x / total_weight) ** 2 ...])
Impurity(tree, input_node, total_weight, mapping, weight_fn) ==
    FloatSubtract(IntFloat(1),
                  SumSquares(tree, input_node, total_weight, mapping, weight_fn))

\* input_nodes = list(tree[current_node]): the inputs of a node, in the
\* tree's stable order.
RECURSIVE InputsInOrder(_)
InputsInOrder(S) ==
    IF S = {} THEN <<>>
    ELSE <<FirstInput(S)>> \o InputsInOrder(S \ {FirstInput(S)})

\* impurities, listed in the order of input_nodes
RECURSIVE Impurities(_, _, _, _, _)
Impurities(tree, input_nodes, total_weight, mapping, weight_fn) ==
    IF input_nodes = <<>> THEN <<>>
    ELSE <<Impurity(tree, Head(input_nodes), total_weight, mapping, weight_fn)>>
         \o Impurities(tree, Tail(input_nodes), total_weight, mapping, weight_fn)

\* max(values) and min(values) of floats
RECURSIVE FloatMax(_)
FloatMax(values) ==
    IF Len(values) = 1 THEN values[1]
    ELSE LET rest == FloatMax(Tail(values))
         IN IF FloatLess(values[1], rest) THEN rest ELSE values[1]

RECURSIVE FloatMin(_)
FloatMin(values) ==
    IF Len(values) = 1 THEN values[1]
    ELSE LET rest == FloatMin(Tail(values))
         IN IF FloatLess(rest, values[1]) THEN rest ELSE values[1]

\* The least number of a non-empty set of numbers.
Least(S) == CHOOSE k \in S : \A o \in S : k <= o

\* Mutant of CandidateInputs: the inputs of least impurity.
CandidateInputsMinimum(impurities) ==
    LET minimum_impurity == FloatMin(impurities)
    IN {k \in 1..Len(impurities) : impurities[k] = minimum_impurity}

\* candidate_inputs: the inputs, by their place in input_nodes, whose
\* impurity is the very float that is the maximum.
CandidateInputs(impurities) ==
    LET maximum_impurity == FloatMax(impurities)
    IN {k \in 1..Len(impurities) : impurities[k] = maximum_impurity}

\* min(subtree_sizes.items(), key=itemgetter(1)): the first of the
\* candidates whose subtree has the fewest nodes.
SmallestSubtree(tree, input_nodes, candidate_inputs) ==
    Least({k \in candidate_inputs :
              \A o \in candidate_inputs :
                  TreeLen(Subtree(tree, input_nodes[k]))
                    <= TreeLen(Subtree(tree, input_nodes[o]))})

\* selected: the only candidate or, of several, the one picked by the size
\* of its subtree.
Selected(tree, input_nodes, candidate_inputs) ==
    IF Cardinality(candidate_inputs) > 1
    THEN input_nodes[SmallestSubtree(tree, input_nodes, candidate_inputs)]
    ELSE input_nodes[Least(candidate_inputs)]

\* The selectors divide by total_weight for every response of every input.
Divides(tree, input_nodes) ==
    \E k \in 1..Len(input_nodes) : Children(tree, input_nodes[k]) # {}

\* Mutant of Gini: the input of least impurity is taken.
GiniMinimum(tree, input_nodes, total_weight, mapping, weight_fn) ==
    IF input_nodes = <<>> THEN Raises("ValueError")
    ELSE IF total_weight = 0 /\ Divides(tree, input_nodes)
    THEN Raises("ZeroDivisionError")
    ELSE Returns(Selected(tree, input_nodes,
                          CandidateInputsMinimum(
                              Impurities(tree, input_nodes, total_weight,
                                         mapping, weight_fn))))

\* gini_selector, once total_weight and input_nodes are known.  max() of no
\* impurities raises; x / total_weight raises for a total weight of zero,
\* where an input has a response.
Gini(tree, input_nodes, total_weight, mapping, weight_fn) ==
    IF input_nodes = <<>> THEN Raises("ValueError")
    ELSE IF total_weight = 0 /\ Divides(tree, input_nodes)
    THEN Raises("ZeroDivisionError")
    ELSE Returns(Selected(tree, input_nodes,
                          CandidateInputs(
                              Impurities(tree, input_nodes, total_weight,
                                         mapping, weight_fn))))

\* Mutant of gini_selector: the input of least impurity is taken.
gini_selector_minimum(tree, current_node, mapping, weight_fn) ==
    GiniMinimum(tree, InputsInOrder(Children(tree, current_node)),
                tree_weight(Subtree(tree, current_node), mapping, weight_fn),
                mapping, weight_fn)

\* gini_selector: the input whose impurity is the maximum of the
\* impurities, all floats; among several inputs of that very float the
\* first of those with the smallest subtree.
gini_selector(tree, current_node, mapping, weight_fn) ==
    Gini(tree, InputsInOrder(Children(tree, current_node)),
         tree_weight(Subtree(tree, current_node), mapping, weight_fn),
         mapping, weight_fn)

\* math.log(x / total_weight) as the C library computes it, tabulated for
\* the quotients of integers up to 12: LogTable[total_weight][x] is the
\* float -log(x / total_weight) for x < total_weight.
LogTable ==
    <<
      <<>>,
      <<[m |-> <<14831, 32244, 14603, 177>>, e |-> -53]>>,
      <<[m |-> <<779, 30042, 20393, 140>>, e |-> -52],
        [m |-> <<6221, 22911, 19599, 207>>, e |-> -54]>>,
      <<[m |-> <<14831, 32244, 14603, 177>>, e |-> -52],
        [m |-> <<14831, 32244, 14603, 177>>, e |-> -53],
        [m |-> <<23442, 8809, 9608, 147>>, e |-> -54]>>,
      <<[m |-> <<3379, 28635, 263, 206>>, e |-> -52],
        [m |-> <<24695, 25025, 18691, 234>>, e |-> -53],
        [m |-> <<5202, 29954, 25275, 130>>, e |-> -53],
        [m |-> <<6688, 3893, 16351, 228>>, e |-> -55]>>,
      <<[m |-> <<8194, 29780, 11311, 229>>, e |-> -52],
        [m |-> <<779, 30042, 20393, 140>>, e |-> -52],
        [m |-> <<14831, 32244, 14603, 177>>, e |-> -53],
        [m |-> <<6221, 22911, 19599, 207>>, e |-> -54],
        [m |-> <<5749, 9161, 22848, 186>>, e |-> -55]>>,
      <<[m |-> <<23128, 23652, 2506, 249>>, e |-> -52],
        [m |-> <<15712, 23914, 11588, 160>>, e |-> -52],
        [m |-> <<11930, 19989, 29761, 216>>, e |-> -53],
        [m |-> <<16593, 15584, 8573, 143>>, e |-> -53],
        [m |-> <<13455, 12838, 8971, 172>>, e |-> -54],
        [m |-> <<21163, 16515, 27862, 157>>, e |-> -55]>>,
      <<[m |-> <<11123, 32375, 2760, 133>>, e |-> -51],
        [m |-> <<14831, 32244, 14603, 177>>, e |-> -52],
        [m |-> <<10168, 3881, 3024, 251>>, e |-> -53],
        [m |-> <<14831, 32244, 14603, 177>>, e |-> -53],
        [m |-> <<9934, 13390, 21032, 240>>, e |-> -54],
        [m |-> <<23442, 8809, 9608, 147>>, e |-> -54],
        [m |-> <<25724, 1103, 24122, 136>>, e |-> -55]>>,
      <<[m |-> <<779, 30042, 20393, 140>>, e |-> -51],
        [m |-> <<26910, 27577, 17101, 192>>, e |-> -52],
        [m |-> <<779, 30042, 20393, 140>>, e |-> -52],
        [m |-> <<6220, 22911, 19599, 207>>, e |-> -53],
        [m |-> <<29123, 30129, 15511, 150>>, e |-> -53],
        [m |-> <<6221, 22911, 19599, 207>>, e |-> -54],
        [m |-> <<12023, 14653, 22052, 128>>, e |-> -54],
        [m |-> <<29418, 23637, 7197, 241>>, e |-> -56]>>,
      <<[m |-> <<21781, 30570, 11974, 147>>, e |-> -51],
        [m |-> <<3379, 28635, 263, 206>>, e |-> -52],
        [m |-> <<10017, 31099, 3555, 154>>, e |-> -52],
        [m |-> <<24695, 25025, 18691, 234>>, e |-> -53],
        [m |-> <<14831, 32244, 14603, 177>>, e |-> -53],
        [m |-> <<5202, 29954, 25275, 130>>, e |-> -53],
        [m |-> <<16208, 18882, 20236, 182>>, e |-> -54],
        [m |-> <<6688, 3893, 16351, 228>>, e |-> -55],
        [m |-> <<16732, 16916, 25504, 215>>, e |-> -56]>>,
      <<[m |-> <<14156, 28414, 15246, 153>>, e |-> -51],
        [m |-> <<20896, 24322, 6807, 218>>, e |-> -52],
        [m |-> <<27533, 26786, 10099, 166>>, e |-> -52],
        [m |-> <<13480, 24584, 15889, 129>>, e |-> -52],
        [m |-> <<17096, 23619, 27691, 201>>, e |-> -53],
        [m |-> <<7467, 21329, 5595, 155>>, e |-> -53],
        [m |-> <<20737, 1632, 13644, 231>>, e |-> -54],
        [m |-> <<24258, 1080, 1583, 163>>, e |-> -54],
        [m |-> <<17424, 6726, 15951, 205>>, e |-> -55],
        [m |-> <<18121, 29304, 6397, 195>>, e |-> -56]>>,
      <<[m |-> <<7805, 31143, 1114, 159>>, e |-> -51],
        [m |-> <<8194, 29780, 11311, 229>>, e |-> -52],
        [m |-> <<14831, 32244, 14603, 177>>, e |-> -52],
        [m |-> <<779, 30042, 20393, 140>>, e |-> -52],
        [m |-> <<24460, 1766, 3932, 224>>, e |-> -53],
        [m |-> <<14831, 32244, 14603, 177>>, e |-> -53],
        [m |-> <<17732, 11731, 32214, 137>>, e |-> -53],
        [m |-> <<6221, 22911, 19599, 207>>, e |-> -54],
        [m |-> <<23442, 8809, 9608, 147>>, e |-> -54],
        [m |-> <<5749, 9161, 22848, 186>>, e |-> -55],
        [m |-> <<26153, 21785, 6530, 178>>, e |-> -56]>>
    >>

NaturalLog(x, total_weight) ==
    IF x = total_weight THEN FloatZero
    ELSE Float(TRUE, LogTable[total_weight][x].m, LogTable[total_weight][x].e)

\* [(x / total_weight) * math.log(x / total_weight) for x in weights]
RECURSIVE LogTerms(_, _)
LogTerms(weights, total_weight) ==
    IF weights = <<>> THEN <<>>
    ELSE <<FloatMultiply(TrueDivide(Head(weights), total_weight),
                         NaturalLog(Head(weights), total_weight))>>
         \o LogTerms(Tail(weights), total_weight)

\* info["metric"] = -1 * sum([(x / total_weight) * math.log(x / total_weight)
\*                            for x in weights])
Metric(tree, input_node, total_weight, mapping, weight_fn) ==
    FloatMultiply(
        IntFloat(-1),
        FloatSum(LogTerms(BranchWeights(tree, input_node, mapping, weight_fn),
                          total_weight)))

\* The metrics of input_info, listed in the order of the inputs.
RECURSIVE Metrics(_, _, _, _, _)
Metrics(tree, input_nodes, total_weight, mapping, weight_fn) ==
    IF input_nodes = <<>> THEN <<>>
    ELSE <<Metric(tree, Head(input_nodes), total_weight, mapping, weight_fn)>>
         \o Metrics(tree, Tail(input_nodes), total_weight, mapping, weight_fn)

\* max(input_info, key=itemgetter("metric")): the first input whose metric
\* is the maximum, by its place in input_nodes.
MaxMetric(metric) ==
    LET maximum == FloatMax(metric)
    IN Least({k \in 1..Len(metric) : metric[k] = maximum})

\* A response of some input has weight zero, so that math.log(0.0) raises.
LogOfZero(tree, input_nodes, mapping, weight_fn) ==
    \E k \in 1..Len(input_nodes) :
        \E o \in Children(tree, input_nodes[k]) :
            tree_weight(Subtree(tree, o), mapping, weight_fn) = 0

\* entropy_selector, once total_weight and the inputs are known.  max() of
\* no inputs raises, x / total_weight raises for a total weight of zero,
\* math.log(0.0) for a branch of weight zero.
Entropy(tree, input_nodes, total_weight, mapping, weight_fn) ==
    IF input_nodes = <<>> THEN Raises("ValueError")
    ELSE IF total_weight = 0 /\ Divides(tree, input_nodes)
    THEN Raises("ZeroDivisionError")
    ELSE IF LogOfZero(tree, input_nodes, mapping, weight_fn)
    THEN Raises("ValueError")
    ELSE Returns(input_nodes[MaxMetric(Metrics(tree, input_nodes, total_weight,
                                               mapping, weight_fn))])

\* entropy_selector: the first input whose metric, a float, is the
\* maximum.
entropy_selector(tree, current_node, mapping, weight_fn) ==
    Entropy(tree, InputsInOrder(Children(tree, current_node)),
            tree_weight(Subtree(tree, current_node), mapping, weight_fn),
            mapping, weight_fn)

\* INPUT_SELECTORS; the entry of entropy_selector is commented out there.
Selectors == {"random", "first", "gini"}

\* ------------------------------------------------------------- state
VARIABLES
    tree,          \* the model tree, mutated in place by the loop
    full_tree,     \* history: the tree as it was handed to identify()
    benchmark,     \* identify(benchmark=...): simulated or live connector
    target,        \* BenchmarkConnector.target
    selector,      \* the selector passed to identify()
    pc,            \* position of identify() in its loop
    current_node,  \* descent(): current_node
    leaf_node,     \* identify(): leaf_node
    leaf_models,   \* identify(): leaf_models
    result,        \* what identify() returned
    cursor,        \* BenchmarkConnector.current_node
    messages,      \* BenchmarkConnector.messages
    closes,        \* number of connector.close() calls
    sends,         \* number of connector.send() calls made by descent()
    resets,        \* number of connector.reset() calls
    descents,      \* number of connector.descent() calls
    rounds,        \* history: the leaf_models of every round, in order
    events,        \* history: the operations of the run, in order
    weight_function, \* the weight function passed to identify()
    model_mapping, \* tree.model_mapping: the implementations of each model
    selected,      \* descent(): send_node, the node the selector returned
    response_node, \* descent(): response_node
    picked,        \* the outcomes of gini_selector and entropy_selector
    results        \* benchmark(): results, the metrics of the runs so far

vars == <<tree, full_tree, benchmark, target, selector, pc, current_node, leaf_node,
          leaf_models, result, cursor, messages, closes, sends, resets,
          descents, rounds, events, weight_function, model_mapping, selected,
          response_node, picked, results>>

\* What a run of identify() leaves alone: its weighting, the outcomes of
\* the selectors applied on their own, and the results benchmark() has
\* collected.
weighting == <<weight_function, model_mapping, picked, results>>

\* The node a selector call returned, if it returned one.
Returned_node(outcome) ==
    IF outcome.kind = "node" THEN {outcome.node} ELSE {}

\* The nodes selector(tree, current_node, weight_function) may return.
Select(sel, t, node) ==
    IF sel = "first" THEN always_first_selector(t, node)
    ELSE IF sel = "gini"
    THEN Returned_node(gini_selector(t, node, model_mapping, weight_function))
    ELSE random_selector(t, node)

Pending == [kind |-> "pending", models |-> {}]
NoMatch == [kind |-> "none", models |-> {}]
Candidates(ms) == [kind |-> "models", models |-> ms]

\* An entry of the history: the operation, the size of the tree after it
\* and, for a leaf reached, the models of that leaf.
Event(op, t) == [op |-> op, len |-> TreeLen(t), models |-> {}]
LeafEvent(t, node) == [op |-> "leaf", len |-> TreeLen(t), models |-> t.models[node]]

\* The trees identify() is called with: learned from NumModels models, which
\* are interchangeable handles (their behaviours are listed in order).
InitialTrees ==
    {LearnTree(beh) : beh \in {f \in [Models -> Behaviours] :
                                 \A m \in Models, n \in Models :
                                     m < n => f[m] <= f[n]}}

\* tree.model_mapping of a run: model m has the first m implementations.
ModelMapping == [m \in Models |-> FirstImplementations(m)]

\* No selector has been applied on its own.
NotApplied == [gini |-> Raises("none"), entropy |-> Raises("none")]

Init ==
    /\ tree \in InitialTrees
    /\ full_tree = tree
    /\ benchmark \in BOOLEAN
    /\ target \in (IF benchmark THEN Models \cup {AbsentModel} ELSE {AbsentModel})
    /\ selector \in Selectors
    /\ weight_function \in (IF selector = "gini" THEN MODEL_WEIGHTS ELSE {"equal"})
    /\ model_mapping = ModelMapping
    /\ selected = <<>>
    /\ response_node = <<>>
    /\ picked = NotApplied
    /\ results = <<>>
    /\ pc = "Start"
    /\ current_node = <<>>
    /\ leaf_node = <<>>
    /\ leaf_models = {}
    /\ result = Pending
    /\ cursor = <<>>
    /\ messages = <<>>
    /\ closes = 0
    /\ sends = 0
    /\ resets = 0
    /\ descents = 0
    /\ rounds = <<>>
    /\ events = <<>>

\* ------------------------------------------------------------ connector
\* Mutant of ConnectorTree: the connector keeps a copy of the tree made
\* before the run.
ConnectorTreeCopied == full_tree

\* BenchmarkConnector.tree: identify() hands its own tree to the connector,
\* which keeps the reference.
ConnectorTree == tree

\* Mutant of BenchmarkReply: the first neighbour is answered, whether or
\* not its subtree holds the target.
BenchmarkReplyFirstNeighbour(t, at, tgt) ==
    LET all == Children(t, at)
    IN IF all = {} THEN NoneToken
       ELSE LET n == CHOOSE h \in all :
                        \A o \in all : ResponseIndex(h) <= ResponseIndex(o)
            IN n[Len(n)]

\* Mutant of BenchmarkReply: the test of the neighbour's models is negated.
BenchmarkReplyNotHolding(t, at, tgt) ==
    LET holding == {n \in Children(t, at) : tgt \notin TreeModels(Subtree(t, n))}
    IN IF holding = {} THEN NoneToken
       ELSE LET n == CHOOSE h \in holding :
                        \A o \in holding : ResponseIndex(h) <= ResponseIndex(o)
            IN n[Len(n)]

\* BenchmarkConnector.send, after the cursor has advanced by the message:
\* the token of the first neighbour whose subtree holds the target.
BenchmarkReply(t, at, tgt) ==
    LET holding == {n \in Children(t, at) : tgt \in TreeModels(Subtree(t, n))}
    IN IF holding = {} THEN NoneToken
       ELSE LET n == CHOOSE h \in holding :
                        \A o \in holding : ResponseIndex(h) <= ResponseIndex(o)
            IN n[Len(n)]

\* What a live peer may answer.
LiveReplies == {Responses[k] : k \in 1..Len(Responses)} \cup {UnknownResponse}

\* ---------------------------------------------------------------- entry
\* cli.identify_command: the tree is condensed and identify() is called
\* with it, the target and the port, that is with the live connector, the
\* selector always_first_selector and the weight function
\* model_weight_equal.
identify_command ==
    /\ pc = "Start"
    /\ ~benchmark
    /\ selector = "first"
    /\ weight_function = "equal"
    /\ tree' = condense(tree)
    /\ full_tree' = tree'
    /\ pc' = "Called"
    /\ UNCHANGED <<weighting, selected, response_node, benchmark, target, selector,
                   current_node, leaf_node, leaf_models, result, cursor,
                   messages, closes, sends, resets, descents, rounds, events>>

\* identify(), called by identify_command, by benchmark_model or on its
\* own: the connector is created and the loop starts its first descent.
Connect ==
    /\ pc \in {"Start", "Called"}
    /\ pc' = "Descending"
    /\ descents' = 1
    /\ UNCHANGED <<weighting, selected, response_node, tree, full_tree, benchmark, target,
                   selector, current_node, leaf_node, leaf_models, result,
                   cursor, messages, closes, sends, resets, rounds, events>>

\* TLSAttackerConnector.__init__ fails (the connector process does not
\* start, or its socket refuses the connection): the exception leaves
\* identify() before anything is sent.
LiveConnectFault ==
    /\ pc \in {"Start", "Called"}
    /\ ~benchmark
    /\ pc' = "Raised"
    /\ events' = events \o <<Event("raise", tree)>>
    /\ UNCHANGED <<weighting, selected, response_node, tree, full_tree, benchmark, target,
                   selector, current_node, leaf_node, leaf_models, result,
                   cursor, messages, closes, sends, resets, descents,
                   rounds>>

\* ------------------------------------------------------------- descent
\* The part of one iteration of descent()'s loop after the response is
\* known, and descent()'s return to identify(), which assigns what descent()
\* returned to leaf_node: the leaf, or None (here <<>>) when no model has
\* the path.
AfterResponse(send_node, response) ==
    /\ response_node' = send_node \o <<response>>
    /\ IF response_node' \notin tree.nodes
       THEN /\ pc' = "NoLeaf"
            /\ leaf_node' = <<>>
            /\ events' = events \o <<Event("send", tree), Event("nopath", tree)>>
            /\ UNCHANGED current_node
       ELSE IF response_node' \in Leaves(tree)
       THEN /\ pc' = "LeafReached"
            /\ leaf_node' = response_node'
            /\ events' = events \o <<Event("send", tree), LeafEvent(tree, response_node')>>
            /\ UNCHANGED current_node
       ELSE /\ pc' = "Descending"
            /\ current_node' = response_node'
            /\ events' = events \o <<Event("send", tree)>>
            /\ UNCHANGED leaf_node

\* Mutant of BenchmarkDescentStep: the connector's cursor is not advanced
\* by the output.
BenchmarkDescentStepCursorStuck ==
    /\ pc = "Descending"
    /\ benchmark
    /\ \E send_node \in Select(selector, tree, current_node) :
         LET message == send_node[Len(send_node)]
             at == cursor \o <<message>>
             output == BenchmarkReply(ConnectorTree, at, target)
         IN /\ sends' = sends + 1
            /\ selected' = send_node
            /\ IF output = NoneToken
               THEN /\ messages' = messages \o <<message>>
                    /\ cursor' = at
               ELSE /\ messages' = messages \o <<message, output>>
                    /\ cursor' = at
            /\ AfterResponse(send_node, output)
    /\ UNCHANGED <<weighting, tree, full_tree, benchmark, target, selector, leaf_models, result,
                   closes, resets, descents, rounds>>

\* One iteration of descent() with the simulated connector.
BenchmarkDescentStep ==
    /\ pc = "Descending"
    /\ benchmark
    /\ \E send_node \in Select(selector, tree, current_node) :
         LET message == send_node[Len(send_node)]
             at == cursor \o <<message>>
             output == BenchmarkReply(ConnectorTree, at, target)
         IN /\ sends' = sends + 1
            /\ selected' = send_node
            /\ IF output = NoneToken
               THEN /\ messages' = messages \o <<message>>
                    /\ cursor' = at
               ELSE /\ messages' = messages \o <<message, output>>
                    /\ cursor' = at \o <<output>>
            /\ AfterResponse(send_node, output)
    /\ UNCHANGED <<weighting, tree, full_tree, benchmark, target, selector, leaf_models, result,
                   closes, resets, descents, rounds>>

\* One iteration of descent() with the live connector.
LiveDescentStep ==
    /\ pc = "Descending"
    /\ ~benchmark
    /\ \E send_node \in Select(selector, tree, current_node) :
         \E response \in LiveReplies :
            /\ sends' = sends + 1
            /\ selected' = send_node
            /\ AfterResponse(send_node, response)
    /\ UNCHANGED <<weighting, tree, full_tree, benchmark, target, selector, leaf_models, result,
                   cursor, messages, closes, resets, descents, rounds>>

\* The live connector's send fails (socket error) after the selector has
\* returned send_node: the exception leaves descent() and identify().
LiveSendFault ==
    /\ pc = "Descending"
    /\ ~benchmark
    /\ \E send_node \in Select(selector, tree, current_node) :
           selected' = send_node
    /\ pc' = "Raised"
    /\ sends' = sends + 1
    /\ events' = events \o <<Event("raise", tree)>>
    /\ UNCHANGED <<weighting, response_node, tree, full_tree, benchmark,
                   target, selector, current_node, leaf_node, leaf_models,
                   result, cursor, messages, closes, resets, descents,
                   rounds>>

\* A selector called on a node without children: list(tree[node])[0],
\* random.choice of an empty list and max of no impurities all raise, and
\* the exception leaves descent() and identify().
SelectorFault ==
    /\ pc = "Descending"
    /\ Children(tree, current_node) = {}
    /\ pc' = "Raised"
    /\ events' = events \o <<Event("raise", tree)>>
    /\ UNCHANGED <<weighting, selected, response_node, tree, full_tree, benchmark, target,
                   selector, current_node, leaf_node, leaf_models, result,
                   cursor, messages, closes, sends, resets, descents, rounds>>

\* ------------------------------------------------------------ identify
\* Mutant of ReturnNoMatch: the connector is left open.
ReturnNoMatchUnclosed ==
    /\ pc = "NoLeaf"
    /\ result' = NoMatch
    /\ pc' = "Failed"
    /\ UNCHANGED <<weighting, selected, response_node, tree, full_tree, benchmark, target, selector, current_node,
                   leaf_node, leaf_models, cursor, messages, closes, sends,
                   resets, descents, rounds, events>>

\* if not leaf_node: connector.close(); return
ReturnNoMatch ==
    /\ pc = "NoLeaf"
    /\ closes' = closes + 1
    /\ result' = NoMatch
    /\ pc' = "Failed"
    /\ events' = events \o <<Event("close", tree)>>
    /\ UNCHANGED <<weighting, selected, response_node, tree, full_tree, benchmark, target, selector, current_node, leaf_node,
                   leaf_models, cursor, messages, sends, resets, descents,
                   rounds>>

\* Mutant of Prune: the leaf's models are pruned, the others kept.
PruneLeafModels ==
    /\ pc = "LeafReached"
    /\ leaf_models' = tree.models[leaf_node]
    /\ tree' = prune_models(tree, leaf_models')
    /\ rounds' = Append(rounds, leaf_models')
    /\ pc' = "Pruned"
    /\ events' = Append(events, Event("prune", tree'))
    /\ UNCHANGED <<weighting, selected, response_node, full_tree, benchmark, target, selector, current_node,
                   leaf_node, result, cursor, messages, closes, sends, resets,
                   descents>>

\* Mutant of Prune: the models kept are those of the node the descent was
\* on before the leaf, not those of the leaf.
PruneCurrentNode ==
    /\ pc = "LeafReached"
    /\ leaf_models' = tree.models[leaf_node]
    /\ tree' = prune_models(tree, TreeModels(tree) \ tree.models[current_node])
    /\ rounds' = Append(rounds, leaf_models')
    /\ pc' = "Pruned"
    /\ events' = Append(events, Event("prune", tree'))
    /\ UNCHANGED <<weighting, selected, response_node, full_tree, benchmark, target, selector, current_node, leaf_node,
                   result, cursor, messages, closes, sends, resets, descents>>

\* leaf_models = tree.nodes[leaf_node]["models"];
\* tree.prune_models(tree.models - leaf_models)
Prune ==
    /\ pc = "LeafReached"
    /\ leaf_models' = tree.models[leaf_node]
    /\ tree' = prune_models(tree, TreeModels(tree) \ leaf_models')
    /\ rounds' = Append(rounds, leaf_models')
    /\ pc' = "Pruned"
    /\ events' = Append(events, Event("prune", tree'))
    /\ UNCHANGED <<weighting, selected, response_node, full_tree, benchmark, target, selector, current_node, leaf_node,
                   result, cursor, messages, closes, sends, resets, descents>>

\* tree.condense()
Condense ==
    /\ pc = "Pruned"
    /\ tree' = condense(tree)
    /\ pc' = "Condensed"
    /\ events' = Append(events, Event("condense", tree'))
    /\ UNCHANGED <<weighting, selected, response_node, full_tree, benchmark, target, selector, current_node, leaf_node,
                   leaf_models, result, cursor, messages, closes, sends,
                   resets, descents, rounds>>

\* Mutant of Terminate: the models of the (now empty) tree are returned.
TerminateTreeModels ==
    /\ pc = "Condensed"
    /\ TreeLen(tree) = 0
    /\ closes' = closes + 1
    /\ result' = Candidates(TreeModels(tree))
    /\ pc' = "Terminated"
    /\ events' = Append(events, Event("close", tree))
    /\ UNCHANGED <<weighting, selected, response_node, tree, full_tree, benchmark, target, selector, current_node,
                   leaf_node, leaf_models, cursor, messages, sends, resets,
                   descents, rounds>>

\* Mutant of Terminate: the connector is reset before the tree is tested.
TerminateAfterReset ==
    /\ pc = "Condensed"
    /\ TreeLen(tree) = 0
    /\ resets' = resets + 1
    /\ messages' = (IF benchmark THEN messages \o <<"RESET", "">> ELSE messages)
    /\ cursor' = <<>>
    /\ closes' = closes + 1
    /\ result' = Candidates(leaf_models)
    /\ pc' = "Terminated"
    /\ events' = events \o <<Event("reset", tree), Event("close", tree)>>
    /\ UNCHANGED <<weighting, selected, response_node, tree, full_tree, benchmark, target, selector, current_node,
                   leaf_node, leaf_models, sends, descents, rounds>>

\* Mutant of Terminate: the return after close() is missing, so the loop
\* goes on to reset the closed connector.
TerminateWithoutReturn ==
    /\ pc = "Condensed"
    /\ TreeLen(tree) = 0
    /\ closes' = closes + 1
    /\ resets' = resets + 1
    /\ messages' = (IF benchmark THEN messages \o <<"RESET", "">> ELSE messages)
    /\ cursor' = <<>>
    /\ current_node' = <<>>
    /\ selected' = <<>>
    /\ response_node' = <<>>
    /\ descents' = descents + 1
    /\ pc' = "Descending"
    /\ events' = events \o <<Event("close", tree), Event("reset", tree)>>
    /\ UNCHANGED <<weighting, tree, full_tree, benchmark, target, selector,
                   leaf_node, leaf_models, result, sends, rounds>>

\* if len(tree) == 0: connector.close(); return leaf_models
Terminate ==
    /\ pc = "Condensed"
    /\ TreeLen(tree) = 0
    /\ closes' = closes + 1
    /\ result' = Candidates(leaf_models)
    /\ pc' = "Terminated"
    /\ events' = Append(events, Event("close", tree))
    /\ UNCHANGED <<weighting, selected, response_node, tree, full_tree, benchmark, target, selector, current_node, leaf_node,
                   leaf_models, cursor, messages, sends, resets, descents,
                   rounds>>

\* Mutant of Reset: the connector is reset right after pruning, before the
\* tree is condensed.
ResetBeforeCondense ==
    /\ pc = "Pruned"
    /\ resets < MaxResets
    /\ resets' = resets + 1
    /\ messages' = (IF benchmark THEN messages \o <<"RESET", "">> ELSE messages)
    /\ cursor' = <<>>
    /\ current_node' = <<>>
    /\ selected' = <<>>
    /\ response_node' = <<>>
    /\ descents' = descents + 1
    /\ pc' = "Descending"
    /\ events' = Append(events, Event("reset", tree))
    /\ UNCHANGED <<weighting, tree, full_tree, benchmark, target, selector, leaf_node,
                   leaf_models, result, closes, sends, rounds>>

\* Mutant of Reset: the reset puts the tree back into its initial state.
ResetRestoresTree ==
    /\ pc = "Condensed"
    /\ TreeLen(tree) # 0
    /\ resets < MaxResets
    /\ resets' = resets + 1
    /\ messages' = (IF benchmark THEN messages \o <<"RESET", "">> ELSE messages)
    /\ cursor' = <<>>
    /\ current_node' = <<>>
    /\ selected' = <<>>
    /\ response_node' = <<>>
    /\ descents' = descents + 1
    /\ pc' = "Descending"
    /\ events' = Append(events, Event("reset", tree))
    /\ tree' = full_tree
    /\ UNCHANGED <<weighting, full_tree, benchmark, target, selector, leaf_node, leaf_models,
                   result, closes, sends, rounds>>

\* Mutant of Reset: the simulated connector's reset leaves its cursor where
\* it is.
ResetKeepsCursor ==
    /\ pc = "Condensed"
    /\ TreeLen(tree) # 0
    /\ resets < MaxResets
    /\ resets' = resets + 1
    /\ messages' = (IF benchmark THEN messages \o <<"RESET", "">> ELSE messages)
    /\ cursor' = cursor
    /\ current_node' = <<>>
    /\ selected' = <<>>
    /\ response_node' = <<>>
    /\ descents' = descents + 1
    /\ pc' = "Descending"
    /\ events' = Append(events, Event("reset", tree))
    /\ UNCHANGED <<weighting, tree, full_tree, benchmark, target, selector, leaf_node, leaf_models,
                   result, closes, sends, rounds>>

\* iteration += 1; connector.reset(); the loop then descends again from
\* the root.
Reset ==
    /\ pc = "Condensed"
    /\ TreeLen(tree) # 0
    /\ resets < MaxResets
    /\ resets' = resets + 1
    /\ messages' = (IF benchmark THEN messages \o <<"RESET", "">> ELSE messages)
    /\ cursor' = <<>>
    /\ current_node' = <<>>
    /\ selected' = <<>>
    /\ response_node' = <<>>
    /\ descents' = descents + 1
    /\ pc' = "Descending"
    /\ events' = Append(events, Event("reset", tree))
    /\ UNCHANGED <<weighting, tree, full_tree, benchmark, target, selector, leaf_node, leaf_models,
                   result, closes, sends, rounds>>

\* The live connector's reset is a send of "RESET" and fails like one:
\* connector.reset() was called, and the exception leaves identify().
LiveResetFault ==
    /\ pc = "Condensed"
    /\ TreeLen(tree) # 0
    /\ ~benchmark
    /\ resets < MaxResets
    /\ resets' = resets + 1
    /\ pc' = "Raised"
    /\ events' = events \o <<Event("raise", tree)>>
    /\ UNCHANGED <<weighting, selected, response_node, tree, full_tree, benchmark, target, selector, current_node, leaf_node,
                   leaf_models, result, cursor, messages, closes, sends,
                   descents, rounds>>

Next ==
    \/ identify_command
    \/ Connect
    \/ LiveConnectFault
    \/ BenchmarkDescentStep
    \/ LiveDescentStep
    \/ LiveSendFault
    \/ SelectorFault
    \/ ReturnNoMatch
    \/ Prune
    \/ Condense
    \/ Terminate
    \/ Reset
    \/ LiveResetFault

Spec == Init /\ [][Next]_vars

\* ------------------------------------------------------------ benchmark
\* benchmark_model: candidate_models != {model}, the condition of its
\* RuntimeError "Unexpected benchmark model candidates".
UnexpectedCandidates ==
    /\ benchmark
    /\ pc = "Terminated"
    /\ result.models # {target}

\* A connector that answers each send: the run without transport faults.
NextAnswered ==
    \/ identify_command
    \/ Connect
    \/ BenchmarkDescentStep
    \/ LiveDescentStep
    \/ SelectorFault
    \/ ReturnNoMatch
    \/ Prune
    \/ Condense
    \/ Terminate
    \/ Reset

\* identify() is sequential code: whenever it has a next step it takes it.
AnsweredSpec == Init /\ [][NextAnswered]_vars /\ WF_vars(NextAnswered)

\* count_inputs(messages) and count_resets(messages), the metrics
\* benchmark_model reports under "inputs" and "resets".
count_inputs(msgs) == Len(msgs) \div 2
count_resets(msgs) == Cardinality({i \in 1..Len(msgs) : msgs[i] = "RESET"})

\* benchmark_model computes its metrics: identify() returned the transcript
\* and the candidates are the expected ones.
MetricsReported ==
    /\ benchmark
    /\ pc = "Terminated"
    /\ result.models = {target}

\* ------------------------------------------- benchmark(): its runs
\* benchmark() is called with a model of the tree as the target.
BenchmarkInit ==
    /\ Init
    /\ benchmark
    /\ target \in Models

\* benchmark_model raises its RuntimeError, which leaves benchmark().
UnexpectedCandidatesRaised ==
    /\ UnexpectedCandidates
    /\ pc' = "Raised"
    /\ events' = events \o <<Event("raise", tree)>>
    /\ UNCHANGED <<weighting, selected, response_node, tree, full_tree, benchmark, target,
                   selector, current_node, leaf_node, leaf_models, result,
                   cursor, messages, closes, sends, resets, descents, rounds>>

\* benchmark_model computes the metrics of the run and returns them;
\* benchmark() appends them to results and, in its loop over
\* range(iterations), calls benchmark_model again with the same tree, which
\* calls identify() again.  After the last run
\* benchmark() returns.  (The transcript and the candidates of the run
\* are kept with the metrics, as history.)
BenchmarkModelReturns ==
    /\ MetricsReported
    /\ Len(results) < Iterations
    /\ results' = Append(results, [inputs |-> count_inputs(messages),
                                   resets |-> count_resets(messages),
                                   messages |-> messages,
                                   models |-> result.models])
    /\ IF Len(results') < Iterations
       THEN /\ pc' = "Start"
            /\ tree' = tree
            /\ current_node' = <<>>
            /\ selected' = <<>>
            /\ response_node' = <<>>
            /\ leaf_node' = <<>>
            /\ leaf_models' = {}
            /\ result' = Pending
            /\ cursor' = <<>>
            /\ messages' = <<>>
            /\ closes' = 0
            /\ sends' = 0
            /\ resets' = 0
            /\ descents' = 0
            /\ rounds' = <<>>
            /\ events' = <<>>
       ELSE /\ pc' = "Done"
            /\ UNCHANGED <<tree, current_node, selected, response_node, leaf_node, leaf_models,
                           result, cursor, messages, closes, sends, resets,
                           descents, rounds, events>>
    /\ UNCHANGED <<weight_function, model_mapping, picked, full_tree,
                   benchmark, target, selector>>

BenchmarkNext ==
    \/ Connect
    \/ BenchmarkDescentStep
    \/ Prune
    \/ Condense
    \/ Terminate
    \/ Reset
    \/ SelectorFault
    \/ UnexpectedCandidatesRaised
    \/ BenchmarkModelReturns

BenchmarkSpec == BenchmarkInit /\ [][BenchmarkNext]_vars

\* ------------------------------------------- the selectors on their own
\* gini_selector and entropy_selector applied to the root of a tree learned
\* from one model more than the trees of a run, whose inputs have up to
\* three responses.  Below the first response of one of the inputs the
\* tree may go on by one more input and its response.
SelModels == 1..(NumModels + 1)

\* The ways an input splits the models, up to the naming of the responses.
Splits ==
    {f \in [SelModels -> 1..Len(SelResponses)] :
        \A m \in SelModels :
            \A r \in 1..(f[m] - 1) : \E k \in 1..(m - 1) : f[k] = r}

SelectorTree(split, deep) ==
    LET below == <<Inputs[deep], SelResponses[1], Inputs[1]>>
        N == {<<>>}
             \cup {<<Inputs[i]>> : i \in 1..Len(Inputs)}
             \cup {<<Inputs[i], SelResponses[split[i][m]]>> :
                      i \in 1..Len(Inputs), m \in SelModels}
             \cup (IF deep = 0 THEN {}
                   ELSE {below, below \o <<SelResponses[1]>>})
    IN [nodes  |-> N,
        models |-> [n \in N |->
                      IF Len(n) < 2 THEN SelModels
                      ELSE {m \in SelModels :
                              \E i \in 1..Len(Inputs) :
                                  /\ n[1] = Inputs[i]
                                  /\ n[2] = SelResponses[split[i][m]]}]]

\* The mappings the selectors are applied with: models are interchangeable,
\* so they are listed by falling number of implementations.
SelectorMappings ==
    {[m \in SelModels |-> FirstImplementations(c[m])] :
        c \in {d \in [SelModels -> 0..MaxImplementations] :
                 /\ \A m \in SelModels, n \in SelModels : m < n => d[m] >= d[n]
                 /\ SetSum(d, SelModels) <= MaxTotalWeight}}

SelectorInit ==
    /\ tree \in {SelectorTree(split, deep) :
                    split \in [1..Len(Inputs) -> Splits],
                    deep \in 0..Len(Inputs)}
    /\ full_tree = tree
    /\ model_mapping \in SelectorMappings
    /\ weight_function \in {"count", "recent"}
    /\ picked = NotApplied
    /\ results = <<>>
    /\ pc = "Select"
    /\ benchmark = FALSE
    /\ target = AbsentModel
    /\ selector = "gini"
    /\ current_node = <<>>
    /\ selected = <<>>
    /\ response_node = <<>>
    /\ leaf_node = <<>>
    /\ leaf_models = {}
    /\ result = Pending
    /\ cursor = <<>>
    /\ messages = <<>>
    /\ closes = 0
    /\ sends = 0
    /\ resets = 0
    /\ descents = 0
    /\ rounds = <<>>
    /\ events = <<>>

\* gini_selector is called on the current node, under the weights whose
\* quotients have no tabulated logarithm.
ApplyGini ==
    /\ pc = "Select"
    /\ weight_function # "count"
    /\ picked' = [picked EXCEPT
                    !.gini = gini_selector(tree, current_node, model_mapping,
                                           weight_function)]
    /\ pc' = "Selected"
    /\ UNCHANGED <<tree, full_tree, benchmark, target, selector, current_node,
                   leaf_node, leaf_models, result, cursor, messages, closes,
                   sends, resets, descents, rounds, events, weight_function,
                   model_mapping, selected, response_node, results>>

\* Both selectors are called on the current node.
ApplySelectors ==
    /\ pc = "Select"
    /\ weight_function = "count"
    /\ picked' = [gini    |-> gini_selector(tree, current_node, model_mapping,
                                            weight_function),
                  entropy |-> entropy_selector(tree, current_node, model_mapping,
                                               weight_function)]
    /\ pc' = "Selected"
    /\ UNCHANGED <<tree, full_tree, benchmark, target, selector, current_node,
                   leaf_node, leaf_models, result, cursor, messages, closes,
                   sends, resets, descents, rounds, events, weight_function,
                   model_mapping, selected, response_node, results>>

SelectorNext == ApplySelectors \/ ApplyGini

SelectorSpec == SelectorInit /\ [][SelectorNext]_vars

\* -------------------------------------------------------------- claims
Returned == pc \in {"Terminated", "Failed"}

CountOp(op) == Cardinality({i \in 1..Len(events) : events[i].op = op})
\* Two models no node of the tree tells apart.
SameInTree(t, m1, m2) ==
    \A n \in t.nodes : (m1 \in t.models[n]) <=> (m2 \in t.models[n])

\* C1: whenever a round does not end the run, the candidate set recorded at
\* the leaf of the next round is strictly smaller than that of this round.
C1_RoundsShrink ==
    \A k \in 1..Len(rounds) :
        k < Len(rounds) => Cardinality(rounds[k + 1]) < Cardinality(rounds[k])

C1_Witness == Len(rounds) >= 3 /\ pc = "Terminated"

\* C2 as stated: with a connector that answers each send, every run of
\* identify() returns after finitely many rounds: it makes at most NumModels
\* descents of at most MaxDepth sends each, the selector always has an
\* input to return, and the run stops only when it has returned, Terminated
\* or Failed.
C2_Returns ==
    /\ descents <= NumModels
    /\ sends <= MaxDepth * descents
    /\ pc \in {"Start", "Called", "Descending", "NoLeaf", "LeafReached",
               "Pruned", "Condensed", "Terminated", "Failed"}
    /\ pc = "Descending" => Select(selector, tree, current_node) # {}
    /\ (pc = "Condensed" /\ TreeLen(tree) # 0) =>
          /\ resets < MaxResets
          /\ Children(tree, <<>>) # {}

\* C3 as claimed: in benchmark mode with a target that is one of the tree's
\* models, identify() returns exactly the one-element set {target}, and
\* benchmark_model never raises its error.
C3_ExactlyTarget ==
    (benchmark /\ target \in Models /\ Returned)
        => result = Candidates({target}) /\ ~UnexpectedCandidates

\* C3 as amended: in benchmark mode with a target that is one of the tree's
\* models, the run never fails and returns the set of the models the tree
\* does not tell apart from the target, which contains the target;
\* benchmark_model raises exactly when that set holds another model.
C3_TargetGroup ==
    (benchmark /\ target \in Models)
        => /\ pc \notin {"NoLeaf", "Failed"}
           /\ pc = "Terminated" =>
                /\ result.kind = "models"
                /\ target \in result.models
                /\ result.models =
                      {m \in Models : SameInTree(full_tree, m, target)}
                /\ UnexpectedCandidates <=>
                      \E m \in Models \ {target} :
                          SameInTree(full_tree, m, target)

C3_Witness ==
    /\ benchmark
    /\ target \in Models
    /\ pc = "Terminated"
    /\ resets >= 1
    /\ Cardinality(result.models) >= 2

\* C4: a candidate set is returned only when the tree is empty after
\* pruning and condensing, and it is the non-empty models set of the leaf
\* reached by the last descent; every other return is the no-match value.
C4_ReturnValue ==
    /\ result.kind = "models" =>
          /\ pc = "Terminated"
          /\ TreeLen(tree) = 0
          /\ Len(events) >= 4
          /\ events[Len(events) - 1].op = "condense"
          /\ events[Len(events) - 2].op = "prune"
          /\ events[Len(events) - 3].op = "leaf"
          /\ result.models = events[Len(events) - 3].models
          /\ result.models # {}
    /\ pc = "Terminated" => result.kind = "models"
    /\ pc = "Failed" => result = NoMatch
    /\ ~Returned => result = Pending

C4_Witness ==
    /\ pc = "Terminated"
    /\ result.kind = "models"
    /\ Len(rounds) >= 2
    /\ Cardinality(result.models) >= 2

\* C5: when the path of the selected input and the received response is no
\* node of the tree, identify() closes the connector and returns the
\* no-match value; nothing is sent, reset, pruned or condensed after it and
\* no exception leaves identify().
C5_FailedDescent ==
    \A i \in 1..Len(events) :
        events[i].op = "nopath" =>
            /\ pc \in {"NoLeaf", "Failed"}
            /\ pc = "NoLeaf" => i = Len(events)
            /\ pc = "Failed" =>
                  /\ Len(events) = i + 1
                  /\ events[i + 1].op = "close"
                  /\ closes = 1
                  /\ result = NoMatch

C5_Witness ==
    /\ pc = "Failed"
    /\ benchmark
    /\ CountOp("nopath") = 1
    /\ closes = 1

\* C6: connector.close() is called on every exit path of identify(), also
\* when send or reset fails with an error that propagates to the caller.
C6_ClosedOnEveryExit ==
    pc \in {"Terminated", "Failed", "Raised"} => closes >= 1

\* C7: prune_models is called only after a leaf was reached, condense only
\* after that prune, reset only after a condense that left a non-empty
\* tree, and a send only at the start of the run, after a send or after a
\* reset.
C7_StepOrder ==
    \A i \in 1..Len(events) :
        LET op == events[i].op
            prev == IF i = 1 THEN Event("start", full_tree) ELSE events[i - 1]
        IN /\ op = "send" => prev.op \in {"start", "send", "reset"}
           /\ op \in {"leaf", "nopath"} => prev.op = "send"
           /\ op = "prune" => prev.op = "leaf"
           /\ op = "condense" => prev.op = "prune"
           /\ op = "reset" => prev.op = "condense" /\ prev.len > 0
           /\ op = "close" =>
                \/ prev.op = "nopath"
                \/ prev.op = "condense" /\ prev.len = 0

C7_Witness ==
    /\ pc = "Terminated"
    /\ CountOp("reset") >= 1
    /\ CountOp("send") >= 3

\* The run ended in a call of connector.reset() that raised.
FailedReset ==
    /\ pc = "Raised"
    /\ Len(events) >= 2
    /\ events[Len(events) - 1].op = "condense"

\* C8: reset is called exactly once between two consecutive descents,
\* never before the first and never after the last: a successful run of n
\* descents made n-1 resets, a single-round success none.
C8_ResetsBetweenDescents ==
    /\ resets = CountOp("reset") + (IF FailedReset THEN 1 ELSE 0)
    /\ benchmark =>
          Cardinality({k \in 1..Len(messages) : messages[k] = "RESET"}) = resets
    /\ pc = "Terminated" =>
          /\ resets + 1 = CountOp("leaf")
          /\ resets + 1 = descents
    /\ \A i \in 1..Len(events) :
          LET ended == Cardinality({j \in 1..i : events[j].op \in {"leaf", "nopath"}})
              reset == Cardinality({j \in 1..i : events[j].op = "reset"})
          IN /\ reset <= ended
             /\ ended <= reset + 1
             /\ (events[i].op = "send") => ended = reset
    /\ Returned => events[Len(events) - 1].op # "reset"

C8_Witness == pc = "Terminated" /\ descents = 3 /\ resets = 2

\* The states in which the tree is new: as handed to identify(), after a
\* prune_models and after a condense (no other step changes the tree).
TreeIsNew == pc \in {"Start", "Called", "Pruned", "Condensed"}

\* C9: in every tree state of a run (initially, after every prune_models
\* and after every condense) the models of a node are the union of the
\* models of the leaves reachable from it, and a child's models are a
\* subset of its parent's.
C9_ModelsAreUnionOfLeaves ==
    TreeIsNew =>
        LET leaves == Leaves(tree)
        IN \A n \in tree.nodes :
            /\ tree.models[n] =
                  UNION {tree.models[l] : l \in {x \in leaves : IsPrefix(n, x)}}
            /\ \A c \in Children(tree, n) :
                  tree.models[c] \subseteq tree.models[n]

C9_Witness ==
    /\ pc = "Pruned"
    /\ TreeLen(tree) >= 5
    /\ TreeModels(tree) # Models
    /\ Cardinality(Leaves(tree)) >= 2

\* C10: prune_models with a set of models none of which is in the tree,
\* such as the set just pruned, leaves the tree unchanged, for every tree
\* of a run.
C10_PruneIdempotent ==
    TreeIsNew =>
        /\ \A removed \in SUBSET ((Models \cup {AbsentModel}) \ TreeModels(tree)) :
              prune_models(tree, removed) = tree
        /\ pc = "Pruned" =>
              prune_models(tree, TreeModels(full_tree) \ leaf_models) = tree

C10_Witness ==
    /\ pc = "Pruned"
    /\ TreeModels(full_tree) \ leaf_models # {}
    /\ TreeLen(tree) >= 5


\* The impurity 1 - sum((x / total_weight) ** 2) of an input as a number:
\* its numerator over total_weight ** 2, which all inputs of a node share.
ExactImpurity(t, input_node, total_weight) ==
    LET w == BranchWeights(t, input_node, model_mapping, weight_function)
    IN total_weight * total_weight
         - SetSum([k \in DOMAIN w |-> w[k] * w[k]], DOMAIN w)

RECURSIVE Power(_, _)
Power(x, n) == IF n = 0 THEN 1 ELSE x * Power(x, n - 1)

\* The product of x ** x over the branch weights x of an input.  With
\* p = x / total_weight the entropy of the input is -sum(p * log(p)), and
\*     exp(total_weight * entropy) = total_weight ** sum(x) / product,
\* which orders the inputs of one node as their entropy does.
PowerProduct(w, S) ==
    LET RECURSIVE Prod(_)
        Prod(T) == IF T = {} THEN 1
                   ELSE LET x == CHOOSE y \in T : TRUE
                        IN Power(w[x], w[x]) * Prod(T \ {x})
    IN Prod(S)

\* The entropy of input i is, as a number, greater than that of input j.
ExactEntropyGreater(t, i, j, total_weight) ==
    LET wi == BranchWeights(t, i, model_mapping, weight_function)
        wj == BranchWeights(t, j, model_mapping, weight_function)
        si == SetSum(wi, DOMAIN wi)
        sj == SetSum(wj, DOMAIN wj)
        least == IF si <= sj THEN si ELSE sj
    IN Power(total_weight, si - least) * PowerProduct(wj, DOMAIN wj)
         > Power(total_weight, sj - least) * PowerProduct(wi, DOMAIN wi)

\* The inputs of the current node whose impurity is, as a number, the
\* greatest.
GiniMaximal ==
    LET total_weight == tree_weight(Subtree(tree, current_node), model_mapping,
                                    weight_function)
        input_nodes == Children(tree, current_node)
    IN {i \in input_nodes :
          \A o \in input_nodes :
              ExactImpurity(tree, o, total_weight)
                <= ExactImpurity(tree, i, total_weight)}

\* The inputs of the current node whose entropy is, as a number, the
\* greatest.
EntropyMaximal ==
    LET total_weight == tree_weight(Subtree(tree, current_node), model_mapping,
                                    weight_function)
        input_nodes == Children(tree, current_node)
    IN {i \in input_nodes :
          \A o \in input_nodes :
              ~ExactEntropyGreater(tree, o, i, total_weight)}

\* C12: on every node and weighting on which both selectors return an input
\* and neither has a tie between its candidate inputs, gini_selector and
\* entropy_selector return the same input.
C12_GiniEqualsEntropy ==
    (/\ pc = "Selected"
     /\ picked.gini.kind = "node"
     /\ picked.entropy.kind = "node"
     /\ Cardinality(GiniMaximal) = 1
     /\ Cardinality(EntropyMaximal) = 1)
        => picked.gini.node = picked.entropy.node


\* The node at which the selector returned the input sent last, while the
\* tree is still the one the selector saw.
SelectedAt == Parent(selected)
GiniHasSelected ==
    /\ selector = "gini"
    /\ selected # <<>>
    /\ pc \in {"Descending", "LeafReached", "NoLeaf"}

\* The impurity, as a number, of an input of the node gini_selector was
\* called on.
ImpurityAt(input_node) ==
    ExactImpurity(tree, input_node,
                  tree_weight(Subtree(tree, SelectedAt), model_mapping,
                              weight_function))

\* C13 as stated: when several inputs of the current node share the
\* maximal Gini impurity, the input gini_selector returns is one of them
\* whose subtree has the fewest nodes.
C13_TieBreakSmallestSubtree ==
    (pc = "Selected" /\ picked.gini.kind = "node") =>
        \A o \in GiniMaximal :
            TreeLen(Subtree(tree, picked.gini.node)) <= TreeLen(Subtree(tree, o))

\* C14 as stated: called on a node whose subtree has a total weight of
\* zero, gini_selector and entropy_selector end in an explicit error, not
\* in a division by zero and not in an input.
C14_ExplicitError ==
    (/\ pc = "Selected"
     /\ tree_weight(Subtree(tree, current_node), model_mapping,
                    weight_function) = 0)
        => /\ picked.gini.kind \notin {"node", "ZeroDivisionError"}
           /\ picked.entropy.kind \notin {"node", "ZeroDivisionError"}

\* C15 as stated: when a benchmark run reports its metrics, "inputs" is the
\* number of inputs sent through connector.send and "resets" the number of
\* calls of connector.reset.
C15_MetricsCountSendsAndResets ==
    MetricsReported =>
        /\ count_inputs(messages) = sends
        /\ count_resets(messages) = resets

\* C16 as stated: in a benchmark run the tree the connector answers from is
\* the full tree identify() was called with.
C16_ConnectorTreeIsFull ==
    benchmark => ConnectorTree = full_tree

\* C16: the connector answers from the very tree the loop prunes and
\* condenses, and on every input the selector may return next its answer
\* is the one the full tree gives.
C16_SharedTreeSameReplies ==
    (benchmark /\ pc = "Descending") =>
        /\ ConnectorTree = tree
        /\ \A send_node \in Select(selector, tree, current_node) :
               LET at == cursor \o <<send_node[Len(send_node)]>>
               IN BenchmarkReply(ConnectorTree, at, target)
                    = BenchmarkReply(full_tree, at, target)

\* A send is due on a tree that pruning and condensing have made smaller.
C16_Witness ==
    /\ benchmark
    /\ pc = "Descending"
    /\ resets >= 1
    /\ target \in Models
    /\ TreeLen(ConnectorTree) < TreeLen(full_tree)
    /\ Select(selector, tree, current_node) # {}

\* C17: the prune step takes the models of the leaf reached as the
\* candidates and leaves a tree whose models are exactly these: every node
\* keeps its models that are candidates, and the nodes left are those that
\* keep a model and whose ancestors all do.
C17_PruneToLeafModels ==
    [][pc = "LeafReached" =>
          /\ leaf_models' = tree.models[leaf_node]
          /\ TreeModels(tree') = leaf_models'
          /\ tree'.nodes =
                {n \in tree.nodes :
                    \A a \in Prefixes(n) : tree.models[a] \cap leaf_models' # {}}
          /\ \A n \in tree'.nodes :
                 tree'.models[n] = tree.models[n] \cap leaf_models']_vars

\* A prune that took models off nodes away from the path descended, and
\* deleted nodes.
C17_Witness ==
    /\ pc = "Pruned"
    /\ TreeLen(tree) < events[Len(events) - 1].len
    /\ \E n \in tree.nodes :
           /\ ~IsPrefix(n, leaf_node)
           /\ tree.models[n] # full_tree.models[n]

\* C18: the input gini_selector returns is an input of the current node,
\* and no input of that node has a larger impurity
\* 1 - sum((branch weight / total weight) ** 2).
C18_MaximalImpurity ==
    GiniHasSelected =>
        /\ selected \in Children(tree, SelectedAt)
        /\ \A o \in Children(tree, SelectedAt) : ImpurityAt(o) <= ImpurityAt(selected)

\* gini_selector passed over an earlier input of smaller impurity, with
\* models of different weights.
C18_Witness ==
    /\ GiniHasSelected
    /\ weight_function # "equal"
    /\ \E o \in Children(tree, SelectedAt) :
           /\ InputIndex(o) < InputIndex(selected)
           /\ ImpurityAt(o) < ImpurityAt(selected)

\* The response children of the node the cursor is on whose subtree holds
\* the target.
Holding(t, at) ==
    {n \in Children(t, at) : target \in TreeModels(Subtree(t, n))}

\* A send of the simulated connector and its reply.
BenchmarkSent == benchmark /\ sends' = sends + 1
\* What the send returned: the output it appended to messages after the
\* message or, having appended the message only, None.
Reply ==
    IF Len(messages') = Len(messages) + 2 THEN messages'[Len(messages')]
    ELSE NoneToken

\* C19 as stated: every send of the simulated connector finds exactly one
\* response child whose subtree holds the target, and returns its token.
C19_ReplyExists ==
    [][BenchmarkSent =>
          LET at == cursor \o <<selected'[Len(selected')]>>
          IN /\ Cardinality(Holding(tree, at)) = 1
             /\ cursor' = at \o <<Reply>>
             /\ at \o <<Reply>> \in Holding(tree, at)]_vars

\* C19: with a target that is one of the tree's models, every send of the
\* simulated connector advances the cursor by the input, finds exactly one
\* response child whose subtree holds the target, returns its token and
\* advances the cursor by it; the token is the one the full tree gives for
\* the target on the inputs and replies since the last reset.  With a
\* target that is in no node of the tree there is no such child: the send
\* returns no token and the cursor advances by the input only.
C19_ReplyForKnownTarget ==
    [][BenchmarkSent =>
          LET at == cursor \o <<selected'[Len(selected')]>>
          IN IF target \in TreeModels(full_tree)
             THEN /\ Cardinality(Holding(tree, at)) = 1
                  /\ cursor' = at \o <<Reply>>
                  /\ at \o <<Reply>> \in Holding(tree, at)
                  /\ Holding(full_tree, at) = {at \o <<Reply>>}
                  /\ messages' = messages \o <<selected'[Len(selected')], Reply>>
             ELSE /\ Holding(tree, at) = {}
                  /\ Reply = NoneToken
                  /\ cursor' = at
                  /\ messages' = messages \o <<selected'[Len(selected')]>>]_vars

\* A send answered on a smaller tree, after a reset, below the root.
C19_Witness ==
    /\ benchmark
    /\ target \in Models
    /\ resets >= 1
    /\ Len(cursor) = 4
    /\ TreeLen(tree) < TreeLen(full_tree)
    /\ messages[Len(messages)] = cursor[4]

\* C20: in a run the tree changes in the prune step and in the condense
\* step only (before the run, identify_command condenses it): the creation
\* of the connector, every step of a descent, selector call included, the
\* return without a match, the final close and the reset leave it as it is.
C20_OnlyPruneAndCondenseChangeTree ==
    [][(pc \notin {"LeafReached", "Pruned"} /\ pc' # "Called") => tree' = tree]_vars

\* A second descent went two inputs deep on a tree chosen from by
\* gini_selector, after a reset.
C20_Witness ==
    /\ selector = "gini"
    /\ resets >= 1
    /\ Len(selected) = 3
    /\ pc = "LeafReached"
    /\ TreeLen(tree) < TreeLen(full_tree)


\* A run of identify() is about to start: nothing has been sent yet.
RunStarts == pc = "Descending" /\ events = <<>>

\* C21 as stated: every run benchmark() makes for a model starts from the
\* tree in its initial state, and every run that has returned has the
\* result and the transcript of the first.
C21_RunsStartFromInitialTree ==
    /\ RunStarts => tree = full_tree
    /\ \A i \in 1..Len(results) :
           /\ results[i].messages = results[1].messages
           /\ results[i].models = results[1].models


\* C22 as stated: in benchmark mode the connector's cursor is the node the
\* loop selects the next input from, after every send it is the loop's
\* response node, and after every reset both are the root.
C22_CursorsInStep ==
    benchmark =>
        /\ pc = "Descending" => cursor = current_node
        /\ (pc = "Descending" /\ selected = <<>>) =>
              cursor = <<>> /\ current_node = <<>>
        /\ pc \in {"LeafReached", "NoLeaf"} => cursor = response_node

\* C22: in benchmark mode with a target that is one of the tree's models
\* the connector's cursor is the node the loop selects the next input from,
\* after every send it is the loop's response node (a node of the tree),
\* and after every reset both are the root, in every round.  With a target
\* that is in no node of the tree the cursors part at the send that gets no
\* token: the connector's cursor stays on the input node, the loop's
\* response node is that node extended by None.
C22_CursorsInStepForKnownTarget ==
    benchmark =>
        /\ pc = "Descending" => cursor = current_node
        /\ (pc = "Descending" /\ selected = <<>>) =>
              cursor = <<>> /\ current_node = <<>>
        /\ pc = "LeafReached" => cursor = leaf_node
        /\ (pc \in {"Descending", "LeafReached"} /\ selected # <<>>) =>
              /\ cursor \in tree.nodes
              /\ Len(cursor) = Len(selected) + 1
              /\ IsPrefix(selected, cursor)
        /\ pc = "NoLeaf" =>
              /\ target \notin TreeModels(full_tree)
              /\ cursor = selected
              /\ response_node = cursor \o <<NoneToken>>

\* The second round of a benchmark run is one input and one response deep
\* in a tree made smaller by the first.
C22_Witness ==
    /\ benchmark
    /\ target \in Models
    /\ resets = 1
    /\ pc = "Descending"
    /\ Len(cursor) = 2
    /\ cursor = current_node
    /\ TreeLen(tree) < TreeLen(full_tree)


\* C23: in benchmark mode with a target that is one of the tree's models no
\* descent fails and the target is never pruned: every send returns the
\* token of an existing edge, every leaf reached has the target among its
\* models, so have the candidates of every round, and the tree's models
\* contain the target after every prune.
C23_TargetNeverPruned ==
    (benchmark /\ target \in TreeModels(full_tree)) =>
        /\ pc \notin {"NoLeaf", "Failed"}
        /\ \A k \in 1..Len(messages) : messages[k] # NoneToken
        /\ Len(messages) = 2 * (sends + resets)
        /\ (pc \in {"Descending", "LeafReached"}) => cursor \in tree.nodes
        /\ pc = "LeafReached" => target \in tree.models[leaf_node]
        /\ \A i \in 1..Len(rounds) : target \in rounds[i]
        /\ \A i \in 1..Len(events) :
               events[i].op = "leaf" => target \in events[i].models
        /\ pc = "Pruned" => target \in TreeModels(tree)
        /\ pc = "Terminated" => target \in result.models

\* The second prune of a benchmark run left more models than the target.
C23_Witness ==
    /\ benchmark
    /\ target \in TreeModels(full_tree)
    /\ pc = "Pruned"
    /\ Len(rounds) = 2
    /\ target \in TreeModels(tree)
    /\ TreeModels(tree) # {target}
    /\ TreeModels(tree) # TreeModels(full_tree)


\* C24 as stated: whenever the selector is about to be called, at the
\* start of a descent and at every response node where a descent goes on,
\* the current node has an input child, and every input child has a
\* response child.
C24_SelectorHasInputs ==
    pc = "Descending" =>
        /\ current_node \in tree.nodes
        /\ Children(tree, current_node) # {}
        /\ \A i \in Children(tree, current_node) : Children(tree, i) # {}


\* C25: in every run the connector is closed at most once, and the close
\* is the last operation on the connector: no send and no reset follows
\* it, and identify() has returned.
C25_CloseIsLast ==
    /\ closes <= 1
    /\ closes = CountOp("close")
    /\ closes = 1 => Returned
    /\ \A i \in 1..Len(events) :
           events[i].op = "close" =>
               /\ i = Len(events)
               /\ sends = CountOp("send")
               /\ resets = CountOp("reset")

\* A run of three descents and two resets closed its connector.
C25_Witness ==
    /\ closes = 1
    /\ events[Len(events)].op = "close"
    /\ CountOp("reset") = 2
    /\ CountOp("send") >= 3
    /\ ~benchmark

====
